---- MODULE Spec2Model ----
(***************************************************************************)
(* The query/correlation layer of src/src/http-mcp-server.ts: the Property *)
(* Registry, the Field Projector (pickFields), the Table Fetcher           *)
(* (fetchTable), the filter formulas and the registered tools.             *)
(*                                                                         *)
(* Strings the code takes apart (queries, names, e-mails, formulas) are    *)
(* sequences of one-character strings; identifiers it only compares        *)
(* (property ids, table names, field keys) are TLA+ strings.  A JavaScript *)
(* optional (undefined or a value) is a set with at most one element.      *)
(* A calendar date "YYYY-MM-DD" is the number of its day.                  *)
(***************************************************************************)
EXTENDS Integers, Sequences, FiniteSets, TLC

VARIABLES
    properties,   \* the Property Registry (const properties, line 13)
    pc,           \* "idle" | "running" | "done": the tool call being served
    call,         \* the tool call: its name and its arguments
    locals,       \* the handler's local constants, and the instants at which it
                  \* read the process clock
    branches,     \* the promises the handler awaits, one per Promise.all entry
    sent,         \* the requests handed to the remote store by this call, in order
    outcome,      \* what the handler returned or threw
    fetchOpts,    \* Table Fetcher exercised alone: the opts of one fetchTable call
    fetchReq,     \* ... and the request that call made
    pickArgs,     \* Field Projector exercised alone: the arguments of one pickFields call
    pickOut,      \* ... and what that call returned, once it has
    rpcBody,      \* JSON-RPC endpoint (POST /): req.body of one message
    rpcPc,        \* ... "idle" | "received" | "fetching" | "done": its handler
    rpcRes        \* ... and what the handler sent on res, in order

vars ==
    <<properties, pc, call, locals, branches, sent, outcome, fetchOpts, fetchReq,
      pickArgs, pickOut, rpcBody, rpcPc, rpcRes>>

-----------------------------------------------------------------------------
(* Bounds of the model *)

\* the longest response of the remote store
MaxRecs == 2
\* instants of the process clock
MaxClock == 3
\* instants per calendar day (the resolution of the clock)
TicksPerDay == 2
\* the latest date a caller passes as start_date / end_date
MaxDay == 1

-----------------------------------------------------------------------------
(* Program constants *)

MAX_RECORDS == 50
DEFAULT_RANGE_DAYS == 31

-----------------------------------------------------------------------------
(* JavaScript values *)

Some(v) == {v}
None == {}
The(opt) == CHOOSE v \in opt : TRUE

\* a variant without the default: an absent number goes on as a falsy one
OrElse_asIs(opt, d) == IF opt = None THEN 0 ELSE The(opt)

\* x || d on an optional number: undefined and 0 are falsy
OrElse(opt, d) == IF opt = None \/ opt = Some(0) THEN d ELSE The(opt)

Min(a, b) == IF a <= b THEN a ELSE b

\* Array.prototype.includes on a sequence
InSeq(x, s) == \E i \in DOMAIN s : s[i] = x

\* String.prototype.toLowerCase, character by character
LowerChar(c) ==
    CASE c = "A" -> "a"
      [] c = "B" -> "b"
      [] c = "L" -> "l"
      [] c = "O" -> "o"
      [] OTHER -> c

toLowerCase(s) == [i \in DOMAIN s |-> LowerChar(s[i])]

\* String.prototype.includes: t occurs in s as a substring
includes(s, t) ==
    \E i \in 0..(Len(s) - Len(t)) : SubSeq(s, i + 1, i + Len(t)) = t

\* String.prototype.trim (the only white space of the alphabet is " ")
RECURSIVE trimStart(_)
trimStart(s) == IF s # <<>> /\ Head(s) = " " THEN trimStart(Tail(s)) ELSE s

RECURSIVE trimEnd(_)
trimEnd(s) ==
    IF s # <<>> /\ s[Len(s)] = " " THEN trimEnd(SubSeq(s, 1, Len(s) - 1)) ELSE s

trim(s) == trimEnd(trimStart(s))

\* a variant that puts the later sequences first
RECURSIVE flat_reversed(_)
flat_reversed(ss) == IF ss = <<>> THEN <<>> ELSE flat_reversed(Tail(ss)) \o Head(ss)

\* Array.prototype.flat on a sequence of sequences
RECURSIVE flat(_)
flat(ss) == IF ss = <<>> THEN <<>> ELSE Head(ss) \o flat(Tail(ss))

-----------------------------------------------------------------------------
(* The Property Registry.  The source configures one property and invites  *)
(* more ("Add more properties here as you grow"); the registry is fixed at *)
(* process start and is one of Registries.                                 *)

bookingsTable ==
    [tableName |-> "Bookings",
     allowedFields |-> <<"Booking_ID", "Property_Name", "Guest_Name", "Guest_Email",
                         "Guest_Phone", "Arrival_Date", "Departure_Date",
                         "Nights_Stay", "Booking_Status", "Listing_Site", "Notes">>,
     dateFields |-> [checkin |-> "Arrival_Date", checkout |-> "Departure_Date"]]

guestsTable ==
    [tableName |-> "Guests",
     allowedFields |-> <<"First_Name", "Last_Name", "email", "Phone", "Address_City",
                         "Address_State", "Address_Postal_Code", "Notes">>]

contactsTable ==
    [tableName |-> "Contacts", allowedFields |-> <<"Name">>]

\* the property of the source
Serenity ==
    [propertyId |-> "415394",
     name |-> "Serenity Zen Retreat",
     baseId |-> "appZjxFyoaNUFlwCT",
     tables |-> ("bookings" :> bookingsTable @@ "guests" :> guestsTable
                 @@ "contacts" :> contactsTable)]

\* a second property with every table role
Annex ==
    [propertyId |-> "415395",
     name |-> "Annex",
     baseId |-> "appAnnex",
     tables |-> ("bookings" :> bookingsTable @@ "guests" :> guestsTable
                 @@ "contacts" :> contactsTable)]

\* a property that configures the guests role only
Lodge ==
    [propertyId |-> "415396",
     name |-> "Lodge",
     baseId |-> "appLodge",
     tables |-> ("guests" :> guestsTable)]

Registries == { <<Serenity>>, <<Serenity, Annex>>, <<Lodge, Serenity>>, <<>> }

\* property ids a caller passes: configured ones and near misses
PropertyIds == {"415394", "415395", "415396", "41539", "415394 ", ""}

HasRole(prop, role) == role \in DOMAIN prop.tables

\* properties.find((p) => p.propertyId === propertyId): the first match, or undefined
getProperty_first(propertyId) ==
    IF properties = <<>> THEN None ELSE Some(properties[1])

getProperty(propertyId) ==
    LET idx == {i \in DOMAIN properties : properties[i].propertyId = propertyId}
    IN  IF idx = {} THEN None
        ELSE Some(properties[CHOOSE i \in idx : \A j \in idx : i <= j])

-----------------------------------------------------------------------------
(* The Field Projector *)

\* r.fields || {}
FieldsOf(r) == IF "fields" \in DOMAIN r THEN r.fields ELSE <<>>

pickFields_all(records, allowed) ==
    [i \in DOMAIN records |-> [id |-> records[i].id, fields |-> FieldsOf(records[i])]]

\* a variant that gives every allowed field a value, "null" where the record has none
pickFields_defaults(records, allowed) ==
    [i \in DOMAIN records |->
        [id |-> records[i].id,
         fields |-> [k \in {allowed[j] : j \in DOMAIN allowed} |->
                        IF k \in DOMAIN FieldsOf(records[i])
                        THEN FieldsOf(records[i])[k] ELSE "null"]]]

pickFields(records, allowed) ==
    [i \in DOMAIN records |->
        [id |-> records[i].id,
         fields |-> [k \in {k \in DOMAIN FieldsOf(records[i]) : InSeq(k, allowed)}
                        |-> FieldsOf(records[i])[k]]]]

-----------------------------------------------------------------------------
(* The Table Fetcher *)

\* an optional parameter as a (possibly empty) entry of params
Param(name, present, value) == IF present THEN name :> value ELSE <<>>

\* a variant that sends a write
fetchTable_write(opts) ==
    [method |-> "PATCH",
     baseId |-> opts.baseId,
     tableName |-> opts.tableName,
     params |-> <<>>]

fetchTable(opts) ==
    [method |-> "GET",
     baseId |-> opts.baseId,
     tableName |-> opts.tableName,
     params |->
        Param("view", opts.view # None /\ opts.view # Some(""), The(opts.view))
        @@ Param("maxRecords", opts.maxRecords # None /\ opts.maxRecords # Some(0),
                 Min(The(opts.maxRecords), MAX_RECORDS))
        @@ Param("filterByFormula",
                 opts.filterByFormula # None /\ opts.filterByFormula # Some(<<>>),
                 The(opts.filterByFormula))
        @@ Param("fields", opts.fields # None /\ opts.fields # Some(<<>>),
                 The(opts.fields))]

\* the opts of a tool's fetch: no tool passes a view
Opts(prop, table, filter, maxRecords) ==
    [baseId |-> prop.baseId,
     tableName |-> table.tableName,
     view |-> None,
     maxRecords |-> Some(maxRecords),
     filterByFormula |-> filter,
     fields |-> Some(table.allowedFields)]

-----------------------------------------------------------------------------
(* The filter formulas.  A formula is the text the code builds, as a       *)
(* sequence of tokens: the pieces of the template literal, and one token   *)
(* per character of an interpolated query.  White space between tokens is  *)
(* not kept.                                                               *)

\* new Date(t).toISOString().slice(0, 10): the date of instant t
dateOf(t) == t \div TicksPerDay

\* the "YYYY-MM-DD" text of a day, one token
isoDate(d) == ToString(d)

\* AND(IS_BEFORE({checkin}, DATEADD('rangeEnd', 1, 'days')),
\*     IS_AFTER({checkout}, DATEADD('rangeStart', -1, 'days')))
rangeFilter_noAdd(f, rangeStart, rangeEnd) ==
    <<"AND(", "IS_BEFORE(", "{", f.checkin, "}", ",",
          "DATEADD(", "'", isoDate(rangeEnd), "'", ",", "0", ",", "'", "days", "'", ")", ")", ",",
      "IS_AFTER(", "{", f.checkout, "}", ",",
          "DATEADD(", "'", isoDate(rangeStart), "'", ",", "0", ",", "'", "days", "'", ")", ")",
      ")">>

rangeFilter(f, rangeStart, rangeEnd) ==
    <<"AND(", "IS_BEFORE(", "{", f.checkin, "}", ",",
          "DATEADD(", "'", isoDate(rangeEnd), "'", ",", "1", ",", "'", "days", "'", ")", ")", ",",
      "IS_AFTER(", "{", f.checkout, "}", ",",
          "DATEADD(", "'", isoDate(rangeStart), "'", ",", "-1", ",", "'", "days", "'", ")", ")",
      ")">>

\* OR(IS_SAME({checkin}, 'date', 'day'), IS_SAME({checkout}, 'date', 'day'))
makeFilter(f, date) ==
    <<"OR(", "IS_SAME(", "{", f.checkin, "}", ",", "'", isoDate(date), "'", ",",
                 "'", "day", "'", ")", ",",
             "IS_SAME(", "{", f.checkout, "}", ",", "'", isoDate(date), "'", ",",
                 "'", "day", "'", ")",
      ")">>

\* OR(FIND(LOWER('query'), LOWER({Guest_Name}))>0,
\*    FIND(LOWER('query'), LOWER({Guest_Email}))>0)
bookingsFilter(query) ==
    <<"OR(", "FIND(", "LOWER(", "'">> \o query \o <<"'", ")", ",",
                 "LOWER(", "{", "Guest_Name", "}", ")", ")", ">0", ",",
             "FIND(", "LOWER(", "'">> \o query \o <<"'", ")", ",",
                 "LOWER(", "{", "Guest_Email", "}", ")", ")", ">0",
      ")">>

\* OR(FIND('q', LOWER({First_name}))>0, FIND('q', LOWER({Last_Name}))>0,
\*    FIND('q', LOWER(CONCATENATE({First_name}, ' ', {Last_Name})))>0,
\*    FIND('q', LOWER({email}))>0)
guestsFilter(q) ==
    <<"OR(", "FIND(", "'">> \o q \o <<"'", ",",
                 "LOWER(", "{", "First_name", "}", ")", ")", ">0", ",",
             "FIND(", "'">> \o q \o <<"'", ",",
                 "LOWER(", "{", "Last_Name", "}", ")", ")", ">0", ",",
             "FIND(", "'">> \o q \o <<"'", ",",
                 "LOWER(", "CONCATENATE(", "{", "First_name", "}", ",", "'", " ", "'",
                     ",", "{", "Last_Name", "}", ")", ")", ")", ">0", ",",
             "FIND(", "'">> \o q \o <<"'", ",",
                 "LOWER(", "{", "email", "}", ")", ")", ">0",
      ")">>

-----------------------------------------------------------------------------
(* The formula dialect of the remote store, as far as the formulas above   *)
(* use it: how the store reads a formula and decides it on a record.       *)

Tok(f, i) == IF i \in DOMAIN f THEN f[i] ELSE "<end>"

\* the index of the first quote at or after i, 0 if there is none
RECURSIVE QuoteFrom(_, _)
QuoteFrom(f, i) ==
    IF i > Len(f) THEN 0 ELSE IF f[i] = "'" THEN i ELSE QuoteFrom(f, i + 1)

\* the string literals of a formula, in order: a quote opens a literal and
\* the next quote closes it
RECURSIVE LiteralsFrom(_, _)
LiteralsFrom(f, i) ==
    LET open == QuoteFrom(f, i)
        close == QuoteFrom(f, open + 1)
    IN  IF open = 0 THEN <<>>
        ELSE IF close = 0 THEN <<SubSeq(f, open + 1, Len(f))>>
        ELSE <<SubSeq(f, open + 1, close - 1)>> \o LiteralsFrom(f, close + 1)

Literals(f) == LiteralsFrom(f, 1)

\* the values of the dialect
Bool(b) == [t |-> "bool", b |-> b, n |-> 0, s |-> <<>>]
Num(n) == [t |-> "num", b |-> FALSE, n |-> n, s |-> <<>>]
Str(s) == [t |-> "str", b |-> FALSE, n |-> 0, s |-> s]
Err == [t |-> "err", b |-> FALSE, n |-> 0, s |-> <<>>]

Days == 0..((MaxClock \div TicksPerDay) + MaxDay + DEFAULT_RANGE_DAYS + 2)

\* the day each date text stands for
DayOfText == [s \in {isoDate(d) : d \in Days} |-> CHOOSE d \in Days : isoDate(d) = s]

IsDateText(s) == Len(s) = 1 /\ s[1] \in DOMAIN DayOfText

\* a date argument: a date field (a day) or a literal 'YYYY-MM-DD'
IsDate(v) == v.t = "num" \/ (v.t = "str" /\ IsDateText(v.s))
AsDate(v) == IF v.t = "num" THEN v.n ELSE DayOfText[v.s[1]]

NumberTokens == {"-1", "0", "1"}
NumberOf(tok) == CASE tok = "-1" -> -1 [] tok = "0" -> 0 [] OTHER -> 1

FunctionTokens ==
    {"AND(", "OR(", "IS_BEFORE(", "IS_AFTER(", "IS_SAME(", "DATEADD(", "FIND(",
     "LOWER(", "CONCATENATE("}

\* FIND(needle, haystack): the 1-based position of the first occurrence, else 0
FindPos(needle, hay) ==
    LET at == {i \in 1..(Len(hay) - Len(needle) + 1) :
                    SubSeq(hay, i, i + Len(needle) - 1) = needle}
    IN  IF at = {} THEN 0 ELSE CHOOSE i \in at : \A j \in at : i <= j

Apply(fn, a) ==
    LET n == Len(a)
        strs == \A i \in 1..n : a[i].t = "str"
        bools == \A i \in 1..n : a[i].t = "bool"
    IN  CASE fn = "AND(" ->
                IF n > 0 /\ bools THEN Bool(\A i \in 1..n : a[i].b) ELSE Err
          [] fn = "OR(" ->
                IF n > 0 /\ bools THEN Bool(\E i \in 1..n : a[i].b) ELSE Err
          [] fn = "IS_BEFORE(" ->
                IF n = 2 /\ IsDate(a[1]) /\ IsDate(a[2])
                THEN Bool(AsDate(a[1]) < AsDate(a[2])) ELSE Err
          [] fn = "IS_AFTER(" ->
                IF n = 2 /\ IsDate(a[1]) /\ IsDate(a[2])
                THEN Bool(AsDate(a[1]) > AsDate(a[2])) ELSE Err
          [] fn = "IS_SAME(" ->
                IF n = 3 /\ IsDate(a[1]) /\ IsDate(a[2]) /\ a[3] = Str(<<"day">>)
                THEN Bool(AsDate(a[1]) = AsDate(a[2])) ELSE Err
          [] fn = "DATEADD(" ->
                IF n = 3 /\ IsDate(a[1]) /\ a[2].t = "num" /\ a[3] = Str(<<"days">>)
                THEN Num(AsDate(a[1]) + a[2].n) ELSE Err
          [] fn = "FIND(" ->
                IF n = 2 /\ strs THEN Num(FindPos(a[1].s, a[2].s)) ELSE Err
          [] fn = "LOWER(" ->
                IF n = 1 /\ strs THEN Str(toLowerCase(a[1].s)) ELSE Err
          [] fn = "CONCATENATE(" ->
                IF n > 0 /\ strs
                THEN Str(flat([i \in 1..n |-> a[i].s])) ELSE Err
          [] OTHER -> Err

\* the columns of the remote tables that hold dates
DateColumns == {"Arrival_Date", "Departure_Date"}

\* a field of the record: a day (date columns), a string, or blank when the
\* record has no value; a name that is no column of the table is an error
Column(rec, columns, name) ==
    IF name \notin columns THEN Err
    ELSE IF name \notin DOMAIN rec THEN Str(<<>>)
    ELSE IF name \in DateColumns THEN Num(rec[name]) ELSE Str(rec[name])

\* the expression that starts at token i: its value and the index after it
RECURSIVE Expr(_, _, _, _), Args(_, _, _, _)
Expr(f, i, rec, columns) ==
    LET tok == Tok(f, i)
    IN  IF tok \in FunctionTokens THEN
            LET as == Args(f, i + 1, rec, columns)
                v == IF as.ok THEN Apply(tok, as.vals) ELSE Err
            IN  IF Tok(f, as.next) = ">0"
                THEN [val |-> IF v.t = "num" THEN Bool(v.n > 0) ELSE Err,
                      next |-> as.next + 1]
                ELSE [val |-> v, next |-> as.next]
        ELSE IF tok = "{" THEN
            IF Tok(f, i + 2) = "}"
            THEN [val |-> Column(rec, columns, Tok(f, i + 1)), next |-> i + 3]
            ELSE [val |-> Err, next |-> i + 1]
        ELSE IF tok = "'" THEN
            LET close == QuoteFrom(f, i + 1)
            IN  IF close = 0 THEN [val |-> Err, next |-> i + 1]
                ELSE [val |-> Str(SubSeq(f, i + 1, close - 1)), next |-> close + 1]
        ELSE IF tok \in NumberTokens THEN [val |-> Num(NumberOf(tok)), next |-> i + 1]
        ELSE [val |-> Err, next |-> i + 1]

\* the arguments that start at token i, up to the closing parenthesis
Args(f, i, rec, columns) ==
    LET e == Expr(f, i, rec, columns)
        sep == Tok(f, e.next)
    IN  IF e.val.t = "err" THEN [ok |-> FALSE, vals |-> <<>>, next |-> e.next]
        ELSE IF sep = ")" THEN [ok |-> TRUE, vals |-> <<e.val>>, next |-> e.next + 1]
        ELSE IF sep = "," THEN
            LET rest == Args(f, e.next + 1, rec, columns)
            IN  [ok |-> rest.ok, vals |-> <<e.val>> \o rest.vals, next |-> rest.next]
        ELSE [ok |-> FALSE, vals |-> <<>>, next |-> e.next]

\* the formula is one well-formed expression that yields a truth value
WellFormed(f, rec, columns) ==
    LET e == Expr(f, 1, rec, columns)
    IN  e.val.t = "bool" /\ e.next = Len(f) + 1

\* the store returns the record under this filter
Matches(f, rec, columns) ==
    LET e == Expr(f, 1, rec, columns)
    IN  e.val.t = "bool" /\ e.next = Len(f) + 1 /\ e.val.b

-----------------------------------------------------------------------------
(* The remote store: what it can answer, and what callers can pass *)

sAl == <<"A", "l">>
sBo == <<"B", "o">>
sAlBo == <<"A", "l", " ", "B", "o">>
sMail == <<"B", "O", "@", "x">>
sMailLower == <<"b", "o", "@", "x">>
sSecret == <<"x">>

GuestPool ==
    { [id |-> "recG1",
       fields |-> ("First_Name" :> sAl @@ "Last_Name" :> sBo @@ "SSN" :> sSecret)],
      [id |-> "recG2",
       fields |-> ("First_Name" :> sAl @@ "Last_Name" :> sBo @@ "email" :> sMail)] }

BookingPool ==
    { [id |-> "recB1",
       fields |-> ("Guest_Name" :> sAlBo @@ "Card_Number" :> sSecret)],
      [id |-> "recB2",
       fields |-> ("Guest_Email" :> sMailLower @@ "Booking_Status" :> sSecret)] }

ContactPool ==
    { [id |-> "recC1", fields |-> ("Name" :> sAl @@ "Home_Address" :> sSecret)],
      [id |-> "recC2"] }

PoolOf(role) ==
    CASE role = "guests" -> GuestPool
      [] role = "bookings" -> BookingPool
      [] OTHER -> ContactPool

\* the record lists a request for a table can be answered with: up to MaxRecs
\* records of the table, each at most once
Responses ==
    [role \in {"guests", "bookings", "contacts"} |->
        {r \in UNION {[1..n -> PoolOf(role)] : n \in 0..MaxRecs} :
            \A i, j \in DOMAIN r : i # j => r[i] # r[j]}]

Queries ==
    { <<>>, <<"b">>, <<"b", "o">>, <<"B", "O">>, <<"z", "z">>, <<"o", "'">> }

MaxRecordsArgs == {None, Some(0), Some(1), Some(MAX_RECORDS), Some(MAX_RECORDS + 1)}

DateArgs == {None} \cup {Some(d) : d \in 0..MaxDay}

Instants == 0..MaxClock

-----------------------------------------------------------------------------
(* Input schemas of the tools (zod), checked before a handler runs *)

\* z.number().int().positive().max(MAX_RECORDS).optional()
maxRecordsSchema(m) == m = None \/ (The(m) >= 1 /\ The(m) <= MAX_RECORDS)

\* z.string().min(2)
querySchema_min1(query) == Len(query) >= 1

querySchema(query) == Len(query) >= 2

-----------------------------------------------------------------------------
(* Promises *)

NoCall ==
    [op |-> "none", property_id |-> "", query |-> <<>>, start_date |-> None,
     end_date |-> None, max_records |-> None]

NoLocals ==
    [rangeStart |-> 0, rangeEnd |-> 0, today |-> 0, tomorrow |-> 0, q |-> <<>>,
     perPropertyMax |-> 0, clockReads |-> <<>>]

NoOutcome == [kind |-> "none"]
Thrown(e) == [kind |-> "error", error |-> e]
Returned(output) == [kind |-> "ok", output |-> output]

\* a promise whose fetch is in flight
InFlight(stage, role, resp) ==
    [st |-> "inflight", stage |-> stage, role |-> role, resp |-> resp,
     resp2 |-> <<>>, result |-> <<>>, err |-> ""]

Fulfilled(b, result) == [b EXCEPT !.st = "ok", !.result = result]
Rejected(b, e) == [b EXCEPT !.st = "failed", !.err = e]

\* a promise rejected before any fetch was made
RejectedEarly(e) ==
    [st |-> "failed", stage |-> "none", role |-> "none", resp |-> <<>>,
     resp2 |-> <<>>, result |-> <<>>, err |-> e]

Quiescent == \A b \in DOMAIN branches : branches[b].st # "inflight"

\* a variant that waits for every promise and reads a rejected one as no records
promiseAll_settled(brs) ==
    IF \A b \in DOMAIN brs : brs[b].st # "inflight"
    THEN [kind |-> "ok"] ELSE [kind |-> "none"]

\* Promise.all: rejected as soon as one promise is rejected, fulfilled when all are
promiseAll(brs) ==
    LET failed == {b \in DOMAIN brs : brs[b].st = "failed"}
    IN  IF failed # {}
        THEN Thrown(brs[CHOOSE b \in failed : \A c \in failed : b <= c].err)
        ELSE IF \A b \in DOMAIN brs : brs[b].st = "ok"
        THEN [kind |-> "ok"] ELSE [kind |-> "none"]

-----------------------------------------------------------------------------
(* Helpers of the tools *)

ensureProperty(propertyId) ==
    IF getProperty(propertyId) = None
    THEN Thrown("UnknownProperty")
    ELSE Returned(The(getProperty(propertyId)))

\* (g.fields as any)?.[key] || "" (and ?.toString() of a string)
FieldOr(fields, key) == IF key \in DOMAIN fields THEN fields[key] ELSE <<>>

\* a variant that attaches a booking on the guest's e-mail or name only
guestEntries_ownOnly(prop, q, guestsRecords, bookingsRecords) ==
    LET bookings == pickFields(bookingsRecords, prop.tables["bookings"].allowedFields)
        guests == pickFields(guestsRecords, prop.tables["guests"].allowedFields)
        entry(g) ==
            LET email == toLowerCase(FieldOr(g.fields, "email"))
                name == toLowerCase(trim(FieldOr(g.fields, "First name") \o <<" ">>
                                         \o FieldOr(g.fields, "Last Name")))
                matched(b) ==
                    LET be == toLowerCase(FieldOr(b.fields, "Guest_Email"))
                        bn == toLowerCase(FieldOr(b.fields, "Guest_Name"))
                    IN  \/ (email # <<>> /\ includes(be, email))
                        \/ (name # <<>> /\ includes(bn, name))
            IN  [id |-> g.id,
                 fields |-> g.fields,
                 propertyId |-> prop.propertyId,
                 propertyName |-> prop.name,
                 bookings |-> SelectSeq(bookings, matched)]
    IN  [i \in DOMAIN guests |-> entry(guests[i])]

\* a variant that keeps only the guests that have a booking
guestEntries_withBookings(prop, q, guestsRecords, bookingsRecords) ==
    LET bookings == pickFields(bookingsRecords, prop.tables["bookings"].allowedFields)
        guests == pickFields(guestsRecords, prop.tables["guests"].allowedFields)
        has(g) == bookings # <<>>
    IN  [i \in DOMAIN SelectSeq(guests, has) |->
            [id |-> SelectSeq(guests, has)[i].id,
             fields |-> SelectSeq(guests, has)[i].fields,
             propertyId |-> prop.propertyId,
             propertyName |-> prop.name,
             bookings |-> bookings]]

\* get_guest_contact, lines 328-348: the guests of one property, each with the
\* bookings matched to it
guestEntries(prop, q, guestsRecords, bookingsRecords) ==
    LET bookings == pickFields(bookingsRecords, prop.tables["bookings"].allowedFields)
        guests == pickFields(guestsRecords, prop.tables["guests"].allowedFields)
        entry(g) ==
            LET email == toLowerCase(FieldOr(g.fields, "email"))
                name == toLowerCase(trim(FieldOr(g.fields, "First name") \o <<" ">>
                                         \o FieldOr(g.fields, "Last Name")))
                matched(b) ==
                    LET be == toLowerCase(FieldOr(b.fields, "Guest_Email"))
                        bn == toLowerCase(FieldOr(b.fields, "Guest_Name"))
                    IN  \/ (email # <<>> /\ includes(be, email))
                        \/ (name # <<>> /\ includes(bn, name))
                        \/ includes(bn, q)
                        \/ includes(be, q)
            IN  [id |-> g.id,
                 fields |-> g.fields,
                 propertyId |-> prop.propertyId,
                 propertyName |-> prop.name,
                 bookings |-> SelectSeq(bookings, matched)]
    IN  [i \in DOMAIN guests |-> entry(guests[i])]

\* the object a handler returns once its promises are fulfilled
Output(c, loc, brs) ==
    CASE c.op = "list_bookings_by_range" ->
            [bookings |-> brs[1].result,
             range |-> [start_date |-> loc.rangeStart, end_date |-> loc.rangeEnd]]
      [] c.op = "todays_checkins_checkouts" ->
            [today |-> brs[1].result, tomorrow |-> brs[2].result]
      [] c.op = "find_booking_by_guest" -> [bookings |-> brs[1].result]
      [] c.op = "get_guest_contact" ->
            [guests |-> flat([b \in DOMAIN brs |-> brs[b].result])]
      [] OTHER -> [contacts |-> brs[1].result]

\* a variant that throws when every promise is fulfilled with no records
Await_nonEmpty(c, loc, brs) ==
    LET r == promiseAll(brs)
    IN  IF r.kind # "ok" THEN r
        ELSE IF \A b \in DOMAIN brs : brs[b].result = <<>> THEN Thrown("NotFound")
        ELSE Returned(Output(c, loc, brs))

\* what the handler's await of its promises yields: nothing yet, a throw or a return
Await(c, loc, brs) ==
    LET r == promiseAll(brs)
    IN  IF r.kind = "ok" THEN Returned(Output(c, loc, brs)) ELSE r

\* one tool call is served at a time
CanCall == pc = "idle"

\* a variant that takes the first property off the registry (properties.shift())
Finish_shift(c, out) ==
    /\ pc' = "done"
    /\ call' = c
    /\ locals' = NoLocals
    /\ branches' = <<>>
    /\ sent' = <<>>
    /\ outcome' = out
    /\ properties' = IF properties = <<>> THEN properties ELSE Tail(properties)
    /\ UNCHANGED <<fetchOpts, fetchReq, pickArgs, pickOut, rpcBody, rpcPc, rpcRes>>

\* the handler ended without a fetch
Finish(c, out) ==
    /\ pc' = "done"
    /\ call' = c
    /\ locals' = NoLocals
    /\ branches' = <<>>
    /\ sent' = <<>>
    /\ outcome' = out
    /\ UNCHANGED <<properties, fetchOpts, fetchReq, pickArgs, pickOut, rpcBody, rpcPc,
                   rpcRes>>

\* the handler made its first fetches and awaits its promises
Begin(c, loc, brs, reqs) ==
    /\ call' = c
    /\ locals' = loc
    /\ branches' = brs
    /\ sent' = reqs
    /\ outcome' = Await(c, loc, brs)
    /\ pc' = IF Await(c, loc, brs).kind = "none" THEN "running" ELSE "done"
    /\ UNCHANGED <<properties, fetchOpts, fetchReq, pickArgs, pickOut, rpcBody, rpcPc,
                   rpcRes>>

-----------------------------------------------------------------------------
(* The tools *)

\* a variant that lists each property as it is configured
list_properties_whole ==
    /\ CanCall
    /\ Finish([NoCall EXCEPT !.op = "list_properties"],
              Returned([properties |->
                  [i \in DOMAIN properties |->
                      [propertyId |-> properties[i].propertyId,
                       name |-> properties[i].name,
                       baseId |-> properties[i].baseId,
                       tables |-> {properties[i].tables[r].tableName :
                                       r \in DOMAIN properties[i].tables}]]]))

list_properties ==
    /\ CanCall
    /\ Finish([NoCall EXCEPT !.op = "list_properties"],
              Returned([properties |->
                  [i \in DOMAIN properties |->
                      [propertyId |-> properties[i].propertyId,
                       name |-> properties[i].name,
                       baseId |-> properties[i].baseId,
                       tables |-> DOMAIN properties[i].tables]]]))

get_property ==
    /\ CanCall
    /\ \E property_id \in PropertyIds :
        /\ LET c == [NoCall EXCEPT !.op = "get_property", !.property_id = property_id]
               prop == ensureProperty(property_id)
           IN  IF prop.kind = "error" THEN Finish(c, prop)
               ELSE Finish(c, Returned([property |-> prop.output]))

list_bookings_by_range ==
    /\ CanCall
    /\ \E property_id \in PropertyIds, start_date \in DateArgs, end_date \in DateArgs,
       max_records \in MaxRecordsArgs, now1 \in Instants, now2 \in Instants :
        \* the clock is read for rangeStart, then for rangeEnd
        /\ now1 <= now2 /\ now2 <= now1 + 1
        /\ LET c == [NoCall EXCEPT !.op = "list_bookings_by_range",
                                   !.property_id = property_id,
                                   !.start_date = start_date,
                                   !.end_date = end_date,
                                   !.max_records = max_records]
               prop == ensureProperty(property_id)
           IN  IF ~maxRecordsSchema(max_records) THEN Finish(c, Thrown("ValidationError"))
               ELSE IF prop.kind = "error" THEN Finish(c, prop)
               ELSE IF ~HasRole(prop.output, "bookings") THEN Finish(c, Thrown("TypeError"))
               ELSE
                   LET table == prop.output.tables["bookings"]
                       rangeStart ==
                           IF start_date = None THEN dateOf(now1) ELSE The(start_date)
                       rangeEnd ==
                           IF end_date = None
                           THEN dateOf(now2 + DEFAULT_RANGE_DAYS * TicksPerDay)
                           ELSE The(end_date)
                       filterByFormula == rangeFilter(table.dateFields, rangeStart, rangeEnd)
                   IN  Begin(c,
                             [NoLocals EXCEPT !.rangeStart = rangeStart,
                                              !.rangeEnd = rangeEnd,
                                              !.clockReads =
                                                  (IF start_date = None
                                                   THEN <<now1>> ELSE <<>>)
                                                  \o (IF end_date = None
                                                      THEN <<now2>> ELSE <<>>)],
                             <<InFlight("records", "bookings", <<>>)>>,
                             <<fetchTable(Opts(prop.output, table, Some(filterByFormula),
                                               OrElse(max_records, MAX_RECORDS)))>>)

todays_checkins_checkouts ==
    /\ CanCall
    /\ \E property_id \in PropertyIds, now1 \in Instants, now2 \in Instants :
        \* the clock is read for today, then for tomorrow
        /\ now1 <= now2 /\ now2 <= now1 + 1
        /\ LET c == [NoCall EXCEPT !.op = "todays_checkins_checkouts",
                                   !.property_id = property_id]
               prop == ensureProperty(property_id)
           IN  IF prop.kind = "error" THEN Finish(c, prop)
               ELSE IF ~HasRole(prop.output, "bookings") THEN Finish(c, Thrown("TypeError"))
               ELSE
                   LET table == prop.output.tables["bookings"]
                       today == dateOf(now1)
                       tomorrow == dateOf(now2 + TicksPerDay)
                       fetchDay(date) ==
                           fetchTable(Opts(prop.output, table,
                                           Some(makeFilter(table.dateFields, date)),
                                           MAX_RECORDS))
                   IN  Begin(c,
                             [NoLocals EXCEPT !.today = today, !.tomorrow = tomorrow,
                                              !.clockReads = <<now1, now2>>],
                             <<InFlight("records", "bookings", <<>>),
                               InFlight("records", "bookings", <<>>)>>,
                             <<fetchDay(today), fetchDay(tomorrow)>>)

find_booking_by_guest ==
    /\ CanCall
    /\ \E property_id \in PropertyIds, query \in Queries, max_records \in MaxRecordsArgs :
        /\ LET c == [NoCall EXCEPT !.op = "find_booking_by_guest",
                                   !.property_id = property_id,
                                   !.query = query,
                                   !.max_records = max_records]
               prop == ensureProperty(property_id)
           IN  IF ~querySchema(query) \/ ~maxRecordsSchema(max_records)
               THEN Finish(c, Thrown("ValidationError"))
               ELSE IF prop.kind = "error" THEN Finish(c, prop)
               ELSE IF ~HasRole(prop.output, "bookings") THEN Finish(c, Thrown("TypeError"))
               ELSE
                   LET table == prop.output.tables["bookings"]
                   IN  Begin(c, NoLocals,
                             <<InFlight("records", "bookings", <<>>)>>,
                             <<fetchTable(Opts(prop.output, table,
                                               Some(bookingsFilter(query)),
                                               OrElse(max_records, MAX_RECORDS)))>>)

\* a variant that issues the bookings fetch of each property together with its
\* guests fetch
guestsFetches_withBookings(q, perPropertyMax) ==
    flat([i \in DOMAIN properties |->
        IF HasRole(properties[i], "guests") /\ HasRole(properties[i], "bookings")
        THEN <<fetchTable(Opts(properties[i], properties[i].tables["guests"],
                               Some(guestsFilter(q)), perPropertyMax)),
               fetchTable(Opts(properties[i], properties[i].tables["bookings"],
                               Some(bookingsFilter(q)), perPropertyMax))>>
        ELSE <<>>])

\* the part of the per-property functions that runs before their first await:
\* the guests fetch of every property, in configuration order
guestsFetches(q, perPropertyMax) ==
    flat([i \in DOMAIN properties |->
        IF HasRole(properties[i], "guests")
        THEN <<fetchTable(Opts(properties[i], properties[i].tables["guests"],
                               Some(guestsFilter(q)), perPropertyMax))>>
        ELSE <<>>])

\* a variant that never finds the registry empty
NoPropertiesConfigured_never == FALSE

\* properties.length === 0
NoPropertiesConfigured == Len(properties) = 0

get_guest_contact ==
    /\ CanCall
    /\ \E query \in Queries, max_records \in MaxRecordsArgs :
        /\ LET c == [NoCall EXCEPT !.op = "get_guest_contact",
                                   !.query = query,
                                   !.max_records = max_records]
               q == toLowerCase(query)
               perPropertyMax == OrElse(max_records, MAX_RECORDS)
           IN  IF ~querySchema(query) \/ ~maxRecordsSchema(max_records)
               THEN Finish(c, Thrown("ValidationError"))
               ELSE IF NoPropertiesConfigured THEN Finish(c, Thrown("NoProperties"))
               ELSE Begin(c,
                          [NoLocals EXCEPT !.q = q, !.perPropertyMax = perPropertyMax],
                          [i \in DOMAIN properties |->
                              IF HasRole(properties[i], "guests")
                              THEN InFlight("guests", "guests", <<>>)
                              ELSE RejectedEarly("TypeError")],
                          guestsFetches(q, perPropertyMax))

list_contacts ==
    /\ CanCall
    /\ \E property_id \in PropertyIds, max_records \in MaxRecordsArgs :
        /\ LET c == [NoCall EXCEPT !.op = "list_contacts",
                                   !.property_id = property_id,
                                   !.max_records = max_records]
               prop == ensureProperty(property_id)
           IN  IF ~maxRecordsSchema(max_records) THEN Finish(c, Thrown("ValidationError"))
               ELSE IF prop.kind = "error" THEN Finish(c, prop)
               ELSE IF ~HasRole(prop.output, "contacts") THEN Finish(c, Thrown("TypeError"))
               ELSE
                   LET table == prop.output.tables["contacts"]
                   IN  Begin(c, NoLocals,
                             <<InFlight("records", "contacts", <<>>)>>,
                             <<fetchTable(Opts(prop.output, table, None,
                                               OrElse(max_records, MAX_RECORDS)))>>)

-----------------------------------------------------------------------------
(* The remote store answers a request in flight *)

\* the property a promise of the running call works on
PropertyOf(b) ==
    IF call.op = "get_guest_contact" THEN properties[b]
    ELSE The(getProperty(call.property_id))

\* the promises and the requests after the await of promise b resumes
Resume(brs, reqs) ==
    /\ branches' = brs
    /\ sent' = reqs
    /\ IF pc = "running" /\ Await(call, locals, brs).kind # "none"
       THEN pc' = "done" /\ outcome' = Await(call, locals, brs)
       ELSE UNCHANGED <<pc, outcome>>
    /\ UNCHANGED <<properties, call, locals, fetchOpts, fetchReq, pickArgs, pickOut,
                   rpcBody, rpcPc, rpcRes>>

\* a fetch is answered with records
FetchOk ==
    \E b \in DOMAIN branches :
        /\ branches[b].st = "inflight"
        /\ \E records \in Responses[branches[b].role] :
            LET br == branches[b]
                prop == PropertyOf(b)
            IN  IF br.stage = "guests" THEN
                    \* guestsResp arrived: the bookings fetch of the property is next
                    IF HasRole(prop, "bookings")
                    THEN Resume([branches EXCEPT ![b] = InFlight("bookings", "bookings", records)],
                                Append(sent,
                                       fetchTable(Opts(prop, prop.tables["bookings"],
                                                       Some(bookingsFilter(locals.q)),
                                                       locals.perPropertyMax))))
                    ELSE Resume([branches EXCEPT ![b] = Rejected([br EXCEPT !.resp = records],
                                                                 "TypeError")],
                                sent)
                ELSE IF br.stage = "bookings" THEN
                    Resume([branches EXCEPT ![b] =
                                Fulfilled([br EXCEPT !.resp2 = records],
                                          guestEntries(prop, locals.q, br.resp, records))],
                           sent)
                ELSE
                    Resume([branches EXCEPT ![b] =
                                Fulfilled([br EXCEPT !.resp = records],
                                          pickFields(records,
                                                     prop.tables[br.role].allowedFields))],
                           sent)

\* a variant that sends the last request again when a fetch fails
FetchFail_retry ==
    \E b \in DOMAIN branches :
        /\ branches[b].st = "inflight"
        /\ Len(sent) < 2 * Len(branches) + 1
        /\ Resume(branches, Append(sent, sent[Len(sent)]))

\* a variant that isolates a failed fetch: its promise is fulfilled with no entries
FetchFail_isolated ==
    \E b \in DOMAIN branches :
        /\ branches[b].st = "inflight"
        /\ Resume([branches EXCEPT ![b] = Fulfilled(branches[b], <<>>)], sent)

\* a fetch fails: a non-success status or no answer
FetchFail ==
    \E b \in DOMAIN branches :
        /\ branches[b].st = "inflight"
        /\ Resume([branches EXCEPT ![b] = Rejected(branches[b], "RemoteError")], sent)

\* the result went back to the caller and every fetch of the call has ended:
\* the next call can be served
Return ==
    /\ pc = "done"
    /\ Quiescent
    /\ pc' = "idle"
    /\ call' = NoCall
    /\ locals' = NoLocals
    /\ branches' = <<>>
    /\ sent' = <<>>
    /\ outcome' = NoOutcome
    /\ UNCHANGED <<properties, fetchOpts, fetchReq, pickArgs, pickOut, rpcBody, rpcPc,
                   rpcRes>>

-----------------------------------------------------------------------------
(* The Table Fetcher on its own: fetchTable called with any opts *)

\* how far above MAX_RECORDS a requested maxRecords goes
MaxOver == 2

FetchOptsSet ==
    [baseId : {"appZjxFyoaNUFlwCT"},
     tableName : {"Bookings", "Guests", "Contacts"},
     view : {None, Some(""), Some("Grid view")},
     maxRecords : {None} \cup {Some(n) : n \in 0..(MAX_RECORDS + MaxOver)},
     filterByFormula : {None, Some(<<>>), Some(bookingsFilter(<<"b", "o">>))},
     fields : {None, Some(<<>>), Some(<<"Name">>)}]

NoRequest == [method |-> "none"]

\* opts with nothing but the table
BareOpts ==
    [baseId |-> "appZjxFyoaNUFlwCT", tableName |-> "Bookings", view |-> None,
     maxRecords |-> None, filterByFormula |-> None, fields |-> None]

CallFetchTable ==
    /\ fetchReq = NoRequest
    /\ fetchReq' = fetchTable(fetchOpts)
    /\ UNCHANGED <<properties, pc, call, locals, branches, sent, outcome, fetchOpts,
                   pickArgs, pickOut, rpcBody, rpcPc, rpcRes>>

-----------------------------------------------------------------------------
(* The Field Projector on its own: pickFields called with any records and   *)
(* any allow-list                                                          *)

\* the longest allow-list
MaxAllowed == 2

\* records as the remote store reports them: with allowed and other fields,
\* with values of several kinds, with an empty fields map and with none
PickRecords ==
    { [id |-> "rec1", fields |-> ("Name" :> sAl @@ "Home_Address" :> sSecret)],
      [id |-> "rec2"],
      [id |-> "rec3", fields |-> <<>>],
      [id |-> "rec4", fields |-> ("Name" :> <<>> @@ "Nights_Stay" :> 3
                                  @@ "Phone" :> FALSE)] }

PickKeys == {"Name", "Home_Address", "Nights_Stay", "Phone"}

PickArgsSet ==
    [records : UNION {[1..n -> PickRecords] : n \in 0..MaxRecs},
     allowed : UNION {[1..n -> PickKeys] : n \in 0..MaxAllowed}]

NoPickArgs == [records |-> <<>>, allowed |-> <<>>]

CallPickFields ==
    /\ pickOut = None
    /\ pickOut' = Some(pickFields(pickArgs.records, pickArgs.allowed))
    /\ UNCHANGED <<properties, pc, call, locals, branches, sent, outcome, fetchOpts,
                   fetchReq, pickArgs, rpcBody, rpcPc, rpcRes>>

-----------------------------------------------------------------------------
(* The JSON-RPC endpoint of src/unnamed/part_000: app.post("/"), serving one *)
(* message that passed the auth middleware                                   *)

\* JSON values the handler tells apart by type and truthiness; a number is
\* written by its decimal text
JsString(v) == [t |-> "string", v |-> v]
JsNumber(v) == [t |-> "number", v |-> v]
JsNull == [t |-> "null", v |-> ""]

\* !!x
Truthy(x) ==
    ~ \/ x.t = "null"
      \/ (x.t = "number" /\ x.v = "0")
      \/ (x.t = "string" /\ x.v = "")

RpcIds == {JsNumber("0"), JsNumber("7"), JsString("abc"), JsNull}

RpcMethods ==
    {JsString(""), JsString("initialize"), JsString("tools/list"),
     JsString("tools/call"), JsString("ping"), JsNumber("42")}

RpcParams ==
    {None} \cup
    {Some(p) : p \in
        [name : {None, Some("listBases"), Some("getRecords"), Some("nope")},
         arguments : {None,
                      Some([baseId |-> Some("app1"), tableName |-> Some("T")]),
                      Some([baseId |-> None, tableName |-> Some("T")])}]}

\* req.body is undefined
NoBody == [present |-> FALSE, jsonrpc |-> None, id |-> None, method |-> None,
           params |-> None]

\* req.body: nothing, or an object with any of jsonrpc, id, method, params
RpcBodies ==
    {NoBody} \cup
    [present : {TRUE},
     jsonrpc : {None, Some("2.0"), Some("1.0")},
     id : {None} \cup {Some(x) : x \in RpcIds},
     method : {None} \cup {Some(x) : x \in RpcMethods},
     params : RpcParams]

\* no message is being served
NoMessage ==
    /\ rpcBody = NoBody
    /\ rpcPc = "idle"
    /\ rpcRes = <<>>

\* res.status(status).json(body) and, with no body, res.status(status).send()
Response(status, body) == [status |-> status, body |-> body]

ErrorBody(id, code) ==
    Some([jsonrpc |-> "2.0", id |-> id, kind |-> "error", code |-> code])

ResultBody(id) ==
    Some([jsonrpc |-> "2.0", id |-> id, kind |-> "result", code |-> 0])

\* id || "<default>"
IdOr(id, default) ==
    IF id # None /\ Truthy(The(id)) THEN The(id) ELSE JsString(default)

isNotification(body) == body.id = None

requestId(body) ==
    IF isNotification(body) THEN JsString("notification_now") ELSE The(body.id)

\* the end of the try block: the result goes out, or nothing for a notification
Completed(body) ==
    IF isNotification(body) THEN Response(204, None)
    ELSE Response(200, ResultBody(requestId(body)))

\* the catch block
Caught(body) ==
    IF isNotification(body) THEN Response(204, None)
    ELSE Response(500, ErrorBody(requestId(body), -32603))

\* the handler up to its first await: the response it sends, or the fetch it
\* waits for
Handle(body) ==
    IF ~body.present
    THEN [kind |-> "respond",
          res |-> Response(400, ErrorBody(JsString("parse_error"), -32700))]
    ELSE IF body.jsonrpc # Some("2.0")
    THEN [kind |-> "respond",
          res |-> Response(400, ErrorBody(IdOr(body.id, "invalid_jsonrpc"), -32600))]
    ELSE IF body.method = None \/ ~Truthy(The(body.method))
            \/ The(body.method).t # "string"
    THEN [kind |-> "respond",
          res |-> Response(400, ErrorBody(IdOr(body.id, "invalid_method"), -32600))]
    ELSE
        LET method == The(body.method).v
            params == body.params
            name == IF params = None THEN None ELSE The(params).name
            args == IF params = None THEN None ELSE The(params).arguments
        IN  CASE method \in {"initialize", "tools/list"} ->
                    [kind |-> "respond", res |-> Completed(body)]
              [] method = "tools/call" ->
                    IF name = None
                    THEN [kind |-> "respond", res |-> Caught(body)]
                    ELSE IF name = Some("listBases")
                    THEN [kind |-> "fetch"]
                    ELSE IF name = Some("getRecords")
                    THEN IF args = None \/ The(args).baseId = None
                            \/ The(args).tableName = None
                         THEN [kind |-> "respond", res |-> Caught(body)]
                         ELSE [kind |-> "fetch"]
                    ELSE [kind |-> "respond", res |-> Caught(body)]
              [] OTHER ->
                    [kind |-> "respond",
                     res |-> IF isNotification(body) THEN Response(204, None)
                             ELSE Response(400, ErrorBody(requestId(body), -32601))]

\* the handler runs up to its response or its fetch
RpcHandle ==
    /\ rpcPc = "received"
    /\ IF Handle(rpcBody).kind = "respond"
       THEN /\ rpcRes' = Append(rpcRes, Handle(rpcBody).res)
            /\ rpcPc' = "done"
       ELSE /\ rpcRes' = rpcRes
            /\ rpcPc' = "fetching"
    /\ UNCHANGED <<properties, pc, call, locals, branches, sent, outcome, fetchOpts,
                   fetchReq, pickArgs, pickOut, rpcBody>>

\* the fetch is answered with an ok status and a JSON body
RpcFetchOk ==
    /\ rpcPc = "fetching"
    /\ rpcRes' = Append(rpcRes, Completed(rpcBody))
    /\ rpcPc' = "done"
    /\ UNCHANGED <<properties, pc, call, locals, branches, sent, outcome, fetchOpts,
                   fetchReq, pickArgs, pickOut, rpcBody>>

\* the fetch rejects, is answered with a non-ok status, or its body is not JSON:
\* the handler throws into its catch block
RpcFetchFail ==
    /\ rpcPc = "fetching"
    /\ rpcRes' = Append(rpcRes, Caught(rpcBody))
    /\ rpcPc' = "done"
    /\ UNCHANGED <<properties, pc, call, locals, branches, sent, outcome, fetchOpts,
                   fetchReq, pickArgs, pickOut, rpcBody>>

-----------------------------------------------------------------------------
(* Specifications *)

Idle ==
    /\ pc = "idle"
    /\ call = NoCall
    /\ locals = NoLocals
    /\ branches = <<>>
    /\ sent = <<>>
    /\ outcome = NoOutcome

Init ==
    /\ properties \in Registries
    /\ Idle
    /\ fetchOpts = BareOpts
    /\ fetchReq = NoRequest
    /\ pickArgs = NoPickArgs
    /\ pickOut = None
    /\ NoMessage

Next ==
    \/ list_properties
    \/ get_property
    \/ list_bookings_by_range
    \/ todays_checkins_checkouts
    \/ find_booking_by_guest
    \/ get_guest_contact
    \/ list_contacts
    \/ FetchOk
    \/ FetchFail
    \/ Return

Spec == Init /\ [][Next]_vars

InitFetch ==
    /\ properties = <<Serenity>>
    /\ Idle
    /\ fetchOpts \in FetchOptsSet
    /\ fetchReq = NoRequest
    /\ pickArgs = NoPickArgs
    /\ pickOut = None
    /\ NoMessage

NextFetch == CallFetchTable

SpecFetch == InitFetch /\ [][NextFetch]_vars

InitPick ==
    /\ properties = <<Serenity>>
    /\ Idle
    /\ fetchOpts = BareOpts
    /\ fetchReq = NoRequest
    /\ pickArgs \in PickArgsSet
    /\ pickOut = None
    /\ NoMessage

NextPick == CallPickFields

SpecPick == InitPick /\ [][NextPick]_vars

InitRpc ==
    /\ properties = <<Serenity>>
    /\ Idle
    /\ fetchOpts = BareOpts
    /\ fetchReq = NoRequest
    /\ pickArgs = NoPickArgs
    /\ pickOut = None
    /\ rpcBody \in RpcBodies
    /\ rpcPc = "received"
    /\ rpcRes = <<>>

NextRpc ==
    \/ RpcHandle
    \/ RpcFetchOk
    \/ RpcFetchFail

SpecRpc == InitRpc /\ [][NextRpc]_vars

-----------------------------------------------------------------------------
(* Properties *)

Done == pc = "done"
Succeeded == pc = "done" /\ outcome.kind = "ok"
Failed == pc = "done" /\ outcome.kind = "error"

\* the index in the registry of the property with this id
IndexOf(propertyId) == CHOOSE i \in DOMAIN properties : properties[i].propertyId = propertyId

\* every field key of every record is on the allow-list of the table
KeysWithin(records, table) ==
    \A i \in DOMAIN records :
        \A k \in DOMAIN records[i].fields : InSeq(k, table.allowedFields)

\* the raw answers of the remote store to the running call held a field that
\* is on no allow-list
LeakOffered ==
    \E b \in DOMAIN branches :
        \/ \E i \in DOMAIN branches[b].resp :
                DOMAIN FieldsOf(branches[b].resp[i])
                    \cap {"SSN", "Card_Number", "Home_Address"} # {}
        \/ \E i \in DOMAIN branches[b].resp2 :
                DOMAIN FieldsOf(branches[b].resp2[i])
                    \cap {"SSN", "Card_Number", "Home_Address"} # {}

\* C1: in every result of an operation, every record that came from table T of
\* property P has its field keys within allowedFields of T, whatever records the
\* remote store returned; this includes the bookings nested under each guest
\* of get_guest_contact.
C1_FieldLeakPrevention ==
    Succeeded =>
        CASE call.op \in {"list_bookings_by_range", "find_booking_by_guest"} ->
                KeysWithin(outcome.output.bookings,
                           properties[IndexOf(call.property_id)].tables["bookings"])
          [] call.op = "todays_checkins_checkouts" ->
                /\ KeysWithin(outcome.output.today,
                              properties[IndexOf(call.property_id)].tables["bookings"])
                /\ KeysWithin(outcome.output.tomorrow,
                              properties[IndexOf(call.property_id)].tables["bookings"])
          [] call.op = "list_contacts" ->
                KeysWithin(outcome.output.contacts,
                           properties[IndexOf(call.property_id)].tables["contacts"])
          [] call.op = "get_guest_contact" ->
                \A i \in DOMAIN outcome.output.guests :
                    LET g == outcome.output.guests[i]
                        prop == properties[IndexOf(g.propertyId)]
                    IN  /\ KeysWithin(<<g>>, prop.tables["guests"])
                        /\ KeysWithin(g.bookings, prop.tables["bookings"])
          [] OTHER -> TRUE

\* C1 witness: get_guest_contact succeeded with a guest that has bookings, from
\* answers that held fields outside the allow-lists
C1_Witness ==
    /\ Succeeded
    /\ call.op = "get_guest_contact"
    /\ LeakOffered
    /\ \E i \in DOMAIN outcome.output.guests :
            /\ outcome.output.guests[i].bookings # <<>>
            /\ DOMAIN outcome.output.guests[i].fields # {}

SinglePropertyOps ==
    {"get_property", "list_bookings_by_range", "todays_checkins_checkouts",
     "find_booking_by_guest", "list_contacts"}

Configured(propertyId) ==
    \E i \in DOMAIN properties : properties[i].propertyId = propertyId

\* C2: a single-property operation called with a propertyId that is not exactly
\* the identifier of a configured property fails with an error, and no request
\* to the remote store is issued during that invocation.
C2_UnknownPropertyFailsWithoutRequest ==
    (call.op \in SinglePropertyOps /\ ~Configured(call.property_id)) =>
        /\ Failed
        /\ sent = <<>>
        /\ branches = <<>>

\* C2 witness: list_contacts was called with a prefix of the configured id
C2_Witness ==
    /\ properties = <<Serenity>>
    /\ call.op = "list_contacts"
    /\ call.property_id = "41539"
    /\ Failed
    /\ outcome.error = "UnknownProperty"

\* the columns of the remote Bookings table
BookingColumns ==
    {bookingsTable.allowedFields[i] : i \in DOMAIN bookingsTable.allowedFields}
        \cup {"Card_Number"}

\* a booking with these check-in and check-out days
Stay(checkin, checkout) == ("Arrival_Date" :> checkin @@ "Departure_Date" :> checkout)

\* C3: the filter that list_bookings_by_range sends for the range [start, end]
\* is true of a record exactly when checkin <= end and checkout >= start, for
\* all days checkin and checkout (read while the request is in flight: the call
\* sends one request and never changes it).
C3_RangeFilterIsOverlap ==
    (call.op = "list_bookings_by_range" /\ pc = "running") =>
        \A checkin \in Days, checkout \in Days :
            Matches(sent[1].params["filterByFormula"], Stay(checkin, checkout),
                    BookingColumns)
                <=> (checkin <= locals.rangeEnd /\ checkout >= locals.rangeStart)

\* C3 witness: the single-day range [1, 1] was requested, and its filter takes
\* a booking that checks in on day 1 and one that checks out on day 1
C3_Witness ==
    /\ call.op = "list_bookings_by_range"
    /\ call.start_date = Some(1) /\ call.end_date = Some(1)
    /\ Succeeded
    /\ outcome.output.range = [start_date |-> 1, end_date |-> 1]
    /\ Matches(sent[1].params["filterByFormula"], Stay(1, 5), BookingColumns)
    /\ Matches(sent[1].params["filterByFormula"], Stay(0, 1), BookingColumns)

\* C4: list_bookings_by_range called with neither start nor end returns a range
\* whose start is the current date and whose end is exactly DEFAULT_RANGE_DAYS
\* days after its start, at every instant of the process clock at which the
\* call can run.
C4_DefaultRangeWidth ==
    (call.op = "list_bookings_by_range" /\ Succeeded
        /\ call.start_date = None /\ call.end_date = None) =>
        /\ outcome.output.range.start_date = dateOf(locals.clockReads[1])
        /\ outcome.output.range.end_date
              = outcome.output.range.start_date + DEFAULT_RANGE_DAYS

QueryOps == {"find_booking_by_guest", "get_guest_contact"}

\* C5: find_booking_by_guest and get_guest_contact called with a query shorter
\* than 2 fail with a validation error and issue no request; called with a
\* query of length 2 they pass validation and issue their fetches: the
\* bookings fetch of the known property, the guests fetch of every property.
C5_QueryLength ==
    call.op \in QueryOps =>
        /\ Len(call.query) < 2 =>
              /\ Failed
              /\ outcome.error = "ValidationError"
              /\ sent = <<>>
              /\ branches = <<>>
        /\ (Len(call.query) = 2 /\ maxRecordsSchema(call.max_records)) =>
              /\ ~(Failed /\ outcome.error = "ValidationError")
              /\ (/\ call.op = "find_booking_by_guest"
                  /\ Configured(call.property_id)
                  /\ HasRole(properties[IndexOf(call.property_id)], "bookings")) =>
                        /\ Len(sent) = 1
                        /\ sent[1].baseId = properties[IndexOf(call.property_id)].baseId
                        /\ sent[1].tableName = "Bookings"
              /\ call.op = "get_guest_contact" =>
                    \A i \in DOMAIN properties :
                        HasRole(properties[i], "guests") =>
                            \E k \in DOMAIN sent :
                                /\ sent[k].baseId = properties[i].baseId
                                /\ sent[k].tableName = "Guests"

\* C5 witness: find_booking_by_guest with a query of length 2 on the
\* configured property has its request in flight
C5_Witness ==
    /\ call.op = "find_booking_by_guest"
    /\ call.query = <<"b", "o">>
    /\ properties = <<Serenity>>
    /\ pc = "running"
    /\ Len(sent) = 1

\* C6: in todays_checkins_checkouts, if either day fetch fails the operation
\* fails as a whole; a returned result holds the projected records of both
\* fetches, never one day filled and the other empty or missing.
C6_NoPartialDigest ==
    (call.op = "todays_checkins_checkouts" /\ branches # <<>>) =>
        /\ (\E b \in DOMAIN branches : branches[b].st = "failed") => Failed
        /\ outcome.kind = "ok" =>
              /\ \A b \in DOMAIN branches : branches[b].st = "ok"
              /\ outcome.output.today
                    = pickFields(branches[1].resp, bookingsTable.allowedFields)
              /\ outcome.output.tomorrow
                    = pickFields(branches[2].resp, bookingsTable.allowedFields)

\* C6 witness: one day fetch returned records, the other failed, and the
\* operation failed
C6_Witness ==
    /\ call.op = "todays_checkins_checkouts"
    /\ Failed
    /\ outcome.error = "RemoteError"
    /\ \E b, c \in DOMAIN branches :
            /\ branches[b].st = "ok" /\ branches[b].result # <<>>
            /\ branches[c].st = "failed"

\* the guest's name as the claim derives it: first and last name of its
\* projected fields
ProjectedName(g) ==
    toLowerCase(trim(FieldOr(g.fields, "First_Name") \o <<" ">>
                     \o FieldOr(g.fields, "Last_Name")))

\* the four conditions of the claim, on lower-cased texts
ShouldAttach(g, b, q) ==
    LET email == toLowerCase(FieldOr(g.fields, "email"))
        name == ProjectedName(g)
        be == toLowerCase(FieldOr(b.fields, "Guest_Email"))
        bn == toLowerCase(FieldOr(b.fields, "Guest_Name"))
    IN  \/ (email # <<>> /\ includes(be, email))
        \/ (name # <<>> /\ includes(bn, name))
        \/ includes(bn, q)
        \/ includes(be, q)

\* C7: in get_guest_contact a booking of a property is attached to a guest of
\* the same property if and only if the booking's e-mail contains the guest's
\* e-mail, or the booking's name contains the guest's 'first last' name, or
\* the booking's name or e-mail contains the query.
C7_AttachIffMatch ==
    (call.op = "get_guest_contact" /\ Succeeded) =>
        \A i \in DOMAIN outcome.output.guests :
            LET g == outcome.output.guests[i]
                p == IndexOf(g.propertyId)
                bookings == pickFields(branches[p].resp2, bookingsTable.allowedFields)
            IN  \A k \in DOMAIN bookings :
                    InSeq(bookings[k], g.bookings)
                        <=> ShouldAttach(g, bookings[k], locals.q)

\* the guests of a result as (record id, propertyId, propertyName)
Tags(guests) ==
    [i \in DOMAIN guests |->
        <<guests[i].id, guests[i].propertyId, guests[i].propertyName>>]

\* C8: get_guest_contact returns exactly one entry per guest record fetched
\* from any property, tagged with the propertyId and propertyName of the
\* property it was fetched from; a property whose guest fetch returned no
\* records contributes no entry.
C8_OneTaggedEntryPerGuest ==
    (call.op = "get_guest_contact" /\ Succeeded) =>
        Tags(outcome.output.guests)
            = flat([p \in DOMAIN properties |->
                        [i \in DOMAIN branches[p].resp |->
                            <<branches[p].resp[i].id, properties[p].propertyId,
                              properties[p].name>>]])

\* C8 witness: of two properties the first returned one guest and one booking
\* with the guest's e-mail, the second no guest; the result is one entry,
\* tagged with the first property, with exactly one booking
C8_Witness ==
    /\ properties = <<Serenity, Annex>>
    /\ call.op = "get_guest_contact"
    /\ call.query = <<"b", "o">>
    /\ Succeeded
    /\ Len(branches[1].resp) = 1 /\ branches[1].resp[1].id = "recG2"
    /\ Len(branches[1].resp2) = 1 /\ branches[1].resp2[1].id = "recB2"
    /\ branches[2].resp = <<>>
    /\ Len(outcome.output.guests) = 1
    /\ outcome.output.guests[1].propertyId = "415394"
    /\ outcome.output.guests[1].propertyName = "Serenity Zen Retreat"
    /\ Len(outcome.output.guests[1].bookings) = 1

TemplateLiterals(req, op, query) ==
    IF req.tableName = "Guests"
    THEN <<toLowerCase(query), toLowerCase(query), toLowerCase(query), <<" ">>,
           toLowerCase(query)>>
    ELSE IF op = "get_guest_contact"
    THEN <<toLowerCase(query), toLowerCase(query)>>
    ELSE <<query, query>>

\* C10: for every accepted query, the filter formula of find_booking_by_guest
\* and get_guest_contact keeps the query inside a single string literal: the
\* literals of the formula are those of its template, each query literal
\* holding the whole query.
C10_QueryStaysInLiteral ==
    call.op \in QueryOps =>
        \A k \in DOMAIN sent :
            Literals(sent[k].params["filterByFormula"])
                = TemplateLiterals(sent[k], call.op, call.query)

\* the names of the table roles
TableRoles == {"bookings", "guests", "contacts"}

\* what the registry holds beyond ids, names, locations and role names: the
\* allow-list entries, the remote table names and the date-field mappings
Internals ==
    UNION {UNION {{t.tableName}
                    \cup {t.allowedFields[k] : k \in DOMAIN t.allowedFields}
                    \cup (IF "dateFields" \in DOMAIN t
                          THEN {t.dateFields.checkin, t.dateFields.checkout}
                          ELSE {})
                  : t \in {properties[i].tables[r] : r \in DOMAIN properties[i].tables}}
           : i \in DOMAIN properties}

\* C11: the result of list_properties holds, for each configured property in
\* order, only its id, its display name, its store location and the names of
\* its table roles; no allowedFields entry, remote table name or date-field
\* mapping is in it.
C11_ListingHidesInternals ==
    (call.op = "list_properties" /\ Done) =>
        /\ Succeeded
        /\ DOMAIN outcome.output = {"properties"}
        /\ DOMAIN outcome.output.properties = DOMAIN properties
        /\ \A i \in DOMAIN properties :
            LET e == outcome.output.properties[i]
            IN  /\ DOMAIN e = {"propertyId", "name", "baseId", "tables"}
                /\ e.propertyId = properties[i].propertyId
                /\ e.name = properties[i].name
                /\ e.baseId = properties[i].baseId
                /\ e.tables = DOMAIN properties[i].tables
                /\ e.tables \subseteq TableRoles
                /\ ({e.propertyId, e.name, e.baseId} \cup e.tables) \cap Internals = {}

\* C11 witness: two properties were listed, one of them with the guests role only
C11_Witness ==
    /\ call.op = "list_properties"
    /\ Succeeded
    /\ properties = <<Lodge, Serenity>>
    /\ outcome.output.properties[1].tables = {"guests"}
    /\ Len(outcome.output.properties) = 2

\* C12: every request an operation hands to the remote store is a read (GET).
\* Requests are the only way the program reaches the store, so its contents
\* are the same after any sequence of operations.
C12_ReadOnly ==
    \A k \in DOMAIN sent : sent[k].method = "GET"

\* C12 witness: get_guest_contact on two properties returned after four requests
C12_Witness ==
    /\ call.op = "get_guest_contact"
    /\ properties = <<Serenity, Annex>>
    /\ Succeeded
    /\ Len(sent) = 4
    /\ \A k \in DOMAIN sent : sent[k].method = "GET"

\* C13: in get_guest_contact, if a fetch (guests or bookings) of any one
\* property fails, the whole operation fails and returns no guest list, even
\* when the fetches of every other property succeed; a returned result holds
\* the entries of every property, none omitted.
C13_NoPartialAggregation ==
    (call.op = "get_guest_contact" /\ branches # <<>>) =>
        /\ (\E b \in DOMAIN branches : branches[b].st = "failed") =>
              /\ Failed
              /\ "output" \notin DOMAIN outcome
        /\ outcome.kind = "ok" =>
              /\ \A b \in DOMAIN branches : branches[b].st = "ok"
              /\ outcome.output.guests
                    = flat([p \in DOMAIN properties |->
                              guestEntries(properties[p], locals.q,
                                           branches[p].resp, branches[p].resp2)])

\* C13 witness: of two properties the first answered both fetches and has a
\* guest, a fetch of the second failed, and the operation failed
C13_Witness ==
    /\ call.op = "get_guest_contact"
    /\ properties = <<Serenity, Annex>>
    /\ Failed
    /\ outcome.error = "RemoteError"
    /\ branches[1].st = "ok" /\ branches[1].result # <<>>
    /\ branches[2].st = "failed" /\ branches[2].stage = "bookings"

\* a property that defines both the guests and the bookings roles
HasBothRoles(prop) == HasRole(prop, "guests") /\ HasRole(prop, "bookings")

\* C14: get_guest_contact issues fetches for exactly the configured properties
\* that define both the guests and the bookings roles; a property lacking
\* either role gets no fetch, contributes no entry and does not make the
\* operation fail.
C14_OnlyPropertiesWithBothRoles ==
    (call.op = "get_guest_contact" /\ branches # <<>>) =>
        /\ \A k \in DOMAIN sent :
              \E i \in DOMAIN properties :
                  /\ properties[i].baseId = sent[k].baseId
                  /\ HasBothRoles(properties[i])
        /\ \A i \in DOMAIN properties :
              HasBothRoles(properties[i]) =>
                  \E k \in DOMAIN sent : sent[k].baseId = properties[i].baseId
        /\ ~(Failed /\ outcome.error = "TypeError")

\* C15: get_guest_contact called (with arguments its schema accepts) when no
\* property is configured fails with the error "No properties configured" and
\* issues no request to the remote store.
C15_EmptyRegistryFails ==
    (call.op = "get_guest_contact" /\ properties = <<>>) =>
        /\ Failed
        /\ sent = <<>>
        /\ branches = <<>>
        /\ (querySchema(call.query) /\ maxRecordsSchema(call.max_records)) =>
              outcome.error = "NoProperties"

\* C15 witness: the call with a valid query on the empty registry failed
C15_Witness ==
    /\ call.op = "get_guest_contact"
    /\ properties = <<>>
    /\ call.query = <<"b", "o">>
    /\ call.max_records = Some(1)
    /\ Failed
    /\ outcome.error = "NoProperties"
    /\ sent = <<>>

\* C16: todays_checkins_checkouts on a known property, when both day fetches
\* are answered with no records, returns {today: [], tomorrow: []} and does
\* not fail.
C16_EmptyDigest ==
    (/\ call.op = "todays_checkins_checkouts"
     /\ Len(branches) = 2
     /\ \A b \in DOMAIN branches : branches[b].st = "ok" /\ branches[b].resp = <<>>) =>
        /\ Succeeded
        /\ outcome.output = [today |-> <<>>, tomorrow |-> <<>>]

\* C16 witness: both day fetches of property 415394 were answered with no
\* records and the digest was returned
C16_Witness ==
    /\ call.op = "todays_checkins_checkouts"
    /\ call.property_id = "415394"
    /\ Len(sent) = 2
    /\ \A b \in DOMAIN branches : branches[b].st = "ok" /\ branches[b].resp = <<>>
    /\ outcome = Returned([today |-> <<>>, tomorrow |-> <<>>])

\* the operations that issue several independent fetches
FanOutOps == {"todays_checkins_checkouts", "get_guest_contact"}

\* C17: an operation that issues several independent fetches completes, with
\* success or with failure, only after every one of its branches has settled:
\* in no state has it reported its outcome while one of its fetches is in flight.
C17_OutcomeAfterAllSettled ==
    (call.op \in FanOutOps /\ Done) => Quiescent

\* the operations that fetch one table once
SingleFetchOps == {"list_bookings_by_range", "find_booking_by_guest", "list_contacts"}

\* the most requests one invocation of an operation sends
MostRequests(op) ==
    CASE op \in SingleFetchOps -> 1
      [] op = "todays_checkins_checkouts" -> 2
      [] op = "get_guest_contact" -> 2 * Len(properties)
      [] OTHER -> 0

\* C18: every request is attempted at most once per invocation: no request
\* is sent twice, whatever failed, and one invocation sends at most 1 request
\* for list_bookings_by_range, find_booking_by_guest and list_contacts, at
\* most 2 for todays_checkins_checkouts and at most 2 per configured property
\* for get_guest_contact; no request is carried from one invocation to the
\* next, and an invocation that returns a result has sent every one of its
\* requests itself.
C18_SingleAttemptNoCache ==
    /\ Len(sent) <= MostRequests(call.op)
    /\ \A j, k \in DOMAIN sent : j # k => sent[j] # sent[k]
    /\ pc = "idle" => sent = <<>>
    /\ (Succeeded /\ MostRequests(call.op) > 0) => Len(sent) = MostRequests(call.op)

\* C18 witness: a fetch of get_guest_contact on two properties failed after
\* three requests, none of them sent twice
C18_Witness ==
    /\ call.op = "get_guest_contact"
    /\ properties = <<Serenity, Annex>>
    /\ Failed
    /\ outcome.error = "RemoteError"
    /\ Quiescent
    /\ Len(sent) = 3
    /\ \A j, k \in DOMAIN sent : j # k => sent[j] # sent[k]

\* C19: list_bookings_by_range called with a start date and no end date uses
\* end = start + DEFAULT_RANGE_DAYS, for every supplied start date.
C19_DefaultEndFromStart ==
    (/\ call.op = "list_bookings_by_range"
     /\ Succeeded
     /\ call.start_date # None
     /\ call.end_date = None) =>
        /\ outcome.output.range.start_date = The(call.start_date)
        /\ outcome.output.range.end_date = The(call.start_date) + DEFAULT_RANGE_DAYS

\* the field keys a record reports: none when it has no fields map
ReportedKeys(r) == IF "fields" \in DOMAIN r THEN DOMAIN r.fields ELSE {}

\* C20: for every sequence of records and every allow-list, pickFields returns
\* a sequence of the same length and order in which record i has the id of
\* input record i and, as fields, exactly the input fields whose key is in the
\* allow-list, values unchanged and no key added for an allowed field the
\* input lacks; a record with no fields map yields an empty fields map.
C20_ProjectorContract ==
    pickOut # None =>
        LET out == The(pickOut)
            in == pickArgs.records
            allowed == {pickArgs.allowed[j] : j \in DOMAIN pickArgs.allowed}
        IN  /\ DOMAIN out = DOMAIN in
            /\ \A i \in DOMAIN in :
                /\ DOMAIN out[i] = {"id", "fields"}
                /\ out[i].id = in[i].id
                /\ DOMAIN out[i].fields = ReportedKeys(in[i]) \cap allowed
                /\ \A k \in DOMAIN out[i].fields : out[i].fields[k] = in[i].fields[k]

\* C20 witness: a record with fields on and off the allow-list, followed by a
\* record with no fields map, was projected on an allow-list that names a
\* field neither of them has
C20_Witness ==
    /\ pickArgs.records = << [id |-> "rec4",
                              fields |-> ("Name" :> <<>> @@ "Nights_Stay" :> 3
                                          @@ "Phone" :> FALSE)],
                             [id |-> "rec2"] >>
    /\ pickArgs.allowed = <<"Nights_Stay", "Home_Address">>
    /\ pickOut = Some(<< [id |-> "rec4", fields |-> ("Nights_Stay" :> 3)],
                         [id |-> "rec2", fields |-> <<>>] >>)

\* the table role an operation on one property needs
NeededRole(op) == IF op = "list_contacts" THEN "contacts" ELSE "bookings"

\* the operations on one property that fetch a table
TableOps ==
    {"list_bookings_by_range", "todays_checkins_checkouts", "find_booking_by_guest",
     "list_contacts"}

\* C21: an operation that needs a table role the resolved property does not
\* define fails with a not-found or validation error and issues no request to
\* the remote store.
C21_MissingRoleIsNotFound ==
    (/\ call.op \in TableOps
     /\ Done
     /\ Configured(call.property_id)
     /\ ~HasRole(properties[IndexOf(call.property_id)], NeededRole(call.op))) =>
        /\ Failed
        /\ outcome.error \in {"ValidationError", "UnknownProperty", "NotFound"}
        /\ sent = <<>>

\* the position in a sequence of records of the record with this id
PosIn(records, id) == CHOOSE k \in DOMAIN records : records[k].id = id

\* C22: in the result of get_guest_contact properties appear in configuration
\* order, the guests of one property in the order the guests fetch returned
\* them, and the bookings attached to a guest in the order the bookings fetch
\* returned them, in whatever order the fetches of the properties completed.
C22_ResultOrder ==
    (call.op = "get_guest_contact" /\ Succeeded) =>
        LET guests == outcome.output.guests
        IN  /\ \A i, j \in DOMAIN guests :
                  i < j =>
                      LET p == IndexOf(guests[i].propertyId)
                          r == IndexOf(guests[j].propertyId)
                      IN  \/ p < r
                          \/ /\ p = r
                             /\ PosIn(branches[p].resp, guests[i].id)
                                    < PosIn(branches[p].resp, guests[j].id)
            /\ \A i \in DOMAIN guests :
                  LET bookings == guests[i].bookings
                      fetched == branches[IndexOf(guests[i].propertyId)].resp2
                  IN  \A a, b \in DOMAIN bookings :
                          a < b => PosIn(fetched, bookings[a].id)
                                      < PosIn(fetched, bookings[b].id)

\* C22 witness: two properties each returned the guests recG2, recG1 and the
\* bookings recB2, recB1, and the result keeps these orders
C22_Witness ==
    /\ call.op = "get_guest_contact"
    /\ properties = <<Serenity, Annex>>
    /\ Succeeded
    /\ \A p \in {1, 2} :
          /\ Len(branches[p].resp) = 2 /\ branches[p].resp[1].id = "recG2"
          /\ Len(branches[p].resp2) = 2 /\ branches[p].resp2[1].id = "recB2"
    /\ Len(outcome.output.guests) = 4
    /\ outcome.output.guests[1].propertyId = "415394"
    /\ outcome.output.guests[1].id = "recG2"
    /\ outcome.output.guests[2].id = "recG1"
    /\ outcome.output.guests[3].propertyId = "415395"
    /\ Len(outcome.output.guests[1].bookings) = 2
    /\ outcome.output.guests[1].bookings[1].id = "recB2"

\* the filter is true of a booking exactly when it checks in or out on the day
SameDayFilter(filter, day) ==
    \A checkin \in Days, checkout \in Days :
        Matches(filter, Stay(checkin, checkout), BookingColumns)
            <=> (checkin = day \/ checkout = day)

\* C23: the filter todays_checkins_checkouts builds for a date D is true of a
\* record exactly when checkin = D or checkout = D, for all days checkin and
\* checkout; the operation issues one such filter for today, the date at which
\* it read the clock, and one for today + 1 day.
C23_TodayAndNextDay ==
    (call.op = "todays_checkins_checkouts" /\ pc = "running") =>
        LET today == dateOf(locals.clockReads[1])
        IN  /\ Len(sent) = 2
            /\ SameDayFilter(sent[1].params["filterByFormula"], today)
            /\ SameDayFilter(sent[2].params["filterByFormula"], today + 1)

\* C24: no step of any operation, succeeding or failing, in any interleaving
\* of the answers of the remote store, changes the Property Registry: after
\* any sequence of operations it is what it was at process start.
C24_RegistryUnchanged == [][properties' = properties]_vars

\* C24 witness: get_property has handed out the configured property, and the
\* registry still holds it
C24_Witness ==
    /\ call.op = "get_property"
    /\ Succeeded
    /\ outcome.output.property = Serenity
    /\ properties = <<Serenity, Annex>>

\* C25: every request that list_bookings_by_range, todays_checkins_checkouts,
\* find_booking_by_guest, get_guest_contact or list_contacts sends carries a
\* maxRecords parameter with 1 <= maxRecords <= MAX_RECORDS, for every value
\* of the caller's max_records argument, absent and 0 included.
C25_RequestsCapped ==
    \A k \in DOMAIN sent :
        /\ "maxRecords" \in DOMAIN sent[k].params
        /\ sent[k].params["maxRecords"] >= 1
        /\ sent[k].params["maxRecords"] <= MAX_RECORDS

\* C25 witness: list_contacts called without max_records sent its request
\* with maxRecords = MAX_RECORDS
C25_Witness ==
    /\ call.op = "list_contacts"
    /\ call.max_records = None
    /\ pc = "running"
    /\ Len(sent) = 1
    /\ sent[1].params["maxRecords"] = MAX_RECORDS

\* the requests of the running call for a table of a property
RequestsFor(prop, tableName) ==
    {k \in DOMAIN sent : sent[k].baseId = prop.baseId /\ sent[k].tableName = tableName}

\* C26: in get_guest_contact the bookings fetch of a property is issued only
\* after the guests fetch of that property was answered with records; if the
\* guests fetch of a property fails, no bookings fetch is issued for it; the
\* guests fetches of all properties are issued at the start, none waiting for
\* another property.
C26_BookingsAfterGuests ==
    (call.op = "get_guest_contact" /\ branches # <<>>) =>
        \A p \in DOMAIN properties :
            /\ HasRole(properties[p], "guests") =>
                  Cardinality(RequestsFor(properties[p], "Guests")) = 1
            /\ RequestsFor(properties[p], "Bookings") # {} =>
                  /\ branches[p].stage = "bookings"
                  /\ \A k \in RequestsFor(properties[p], "Bookings") :
                        \E j \in RequestsFor(properties[p], "Guests") : j < k
            /\ (branches[p].st = "failed" /\ branches[p].stage # "bookings") =>
                  RequestsFor(properties[p], "Bookings") = {}

\* C26 witness: the guests fetch of the first property failed and no bookings
\* fetch was issued for it, while the second property is at its bookings fetch
C26_Witness ==
    /\ call.op = "get_guest_contact"
    /\ properties = <<Serenity, Annex>>
    /\ Len(branches) = 2
    /\ branches[1].st = "failed" /\ branches[1].stage = "guests"
    /\ branches[2].st = "inflight" /\ branches[2].stage = "bookings"
    /\ Len(sent) = 3
    /\ sent[3].baseId = "appAnnex" /\ sent[3].tableName = "Bookings"

\* the remote store honoured the bookings filter: every booking of the answer
\* has the lower-cased query in its lower-cased Guest_Name or Guest_Email
Honoured(records, q) ==
    \A i \in DOMAIN records :
        \/ includes(toLowerCase(FieldOr(FieldsOf(records[i]), "Guest_Name")), q)
        \/ includes(toLowerCase(FieldOr(FieldsOf(records[i]), "Guest_Email")), q)

\* C27: in get_guest_contact, when the remote store honours the bookings
\* filter, every booking fetched for a property is attached to every guest
\* fetched for that property, and the bookings of a guest are those fetched
\* for its own property, never those of another property.
C27_AllBookingsToEveryGuest ==
    (/\ call.op = "get_guest_contact"
     /\ Succeeded
     /\ \A p \in DOMAIN branches : Honoured(branches[p].resp2, locals.q)) =>
        \A i \in DOMAIN outcome.output.guests :
            LET g == outcome.output.guests[i]
                p == IndexOf(g.propertyId)
            IN  g.bookings
                  = pickFields(branches[p].resp2,
                               properties[p].tables["bookings"].allowedFields)

\* C27 witness: the first property returned two guests and the booking recB1,
\* the second one guest and the booking recB2, both bookings holding the
\* query; each guest has the booking of its own property and no other
C27_Witness ==
    /\ call.op = "get_guest_contact"
    /\ properties = <<Serenity, Annex>>
    /\ call.query = <<"B", "O">>
    /\ Succeeded
    /\ Len(branches[1].resp) = 2
    /\ Len(branches[1].resp2) = 1 /\ branches[1].resp2[1].id = "recB1"
    /\ Len(branches[2].resp) = 1
    /\ Len(branches[2].resp2) = 1 /\ branches[2].resp2[1].id = "recB2"
    /\ Len(outcome.output.guests) = 3
    /\ \A i \in {1, 2} :
          /\ Len(outcome.output.guests[i].bookings) = 1
          /\ outcome.output.guests[i].bookings[1].id = "recB1"
    /\ Len(outcome.output.guests[3].bookings) = 1
    /\ outcome.output.guests[3].bookings[1].id = "recB2"

\* the message on the endpoint has jsonrpc "2.0" and a string method
WellFormedMessage ==
    /\ rpcBody.present
    /\ rpcBody.jsonrpc = Some("2.0")
    /\ rpcBody.method # None
    /\ The(rpcBody.method).t = "string"

\* C28: on POST /, a message with jsonrpc "2.0", a string method and no id is
\* answered with status 204 and no JSON-RPC body, whether its method is
\* known, unknown, or its tool call throws; a message with an id is answered
\* with exactly one JSON-RPC response, a result or an error, that carries the
\* same id.
C28_NotificationsAndIds ==
    (rpcPc = "done" /\ WellFormedMessage) =>
        IF rpcBody.id = None
        THEN rpcRes = <<Response(204, None)>>
        ELSE /\ Len(rpcRes) = 1
             /\ rpcRes[1].body # None
             /\ The(rpcRes[1].body).kind \in {"result", "error"}
             /\ The(rpcRes[1].body).id = The(rpcBody.id)

====
